---- MODULE Spec2Model ----
(***************************************************************************)
(* TalentScout Hiring Assistant (src/app.py): a Streamlit script.  Every   *)
(* user event runs the callback of a changed widget and then the whole    *)
(* script from top to bottom.  Texts are sequences of lexemes (a lexeme is *)
(* a fixed piece of text), so stripping, splitting on the code fence,      *)
(* lower-casing and JSON decoding are computed on the text itself.         *)
(***************************************************************************)
EXTENDS Integers, Sequences, FiniteSets, TLC

\* ------------------------------------------------------------------ bounds
MaxRaw == 5         \* longest raw model output drawn, in lexemes
MaxText == 3        \* longest chat text drawn, in lexemes
MaxExchanges == 2   \* chat exchanges (two turns each) kept in one session
MaxStore == 2       \* records in candidates.json

\* ------------------------------------------------------------ text lexemes
WS == " "
\* the code-fence delimiter: three backticks
FENCE == "<fence>"
PROSE == "Sure"
JNULL == "null"
\* JSON object texts (their string quotes left out of the lexeme names)
OBJ_PY == "{Python:[Q1,Q2,Q3]}"
OBJ_ERR == "{Error:[Sure]}"

\* the lexemes a raw model output is drawn from
RawAlphabet == {WS, FENCE, PROSE, JNULL, OBJ_PY, OBJ_ERR}

\* All sequences over S of length at most n
SeqsUpTo(S, n) == UNION {[1..k -> S] : k \in 0..n}

RECURSIVE LStrip(_)
\* str.lstrip(): drop leading whitespace
LStrip(s) == IF s # <<>> /\ Head(s) = WS THEN LStrip(Tail(s)) ELSE s

RECURSIVE RStrip(_)
\* str.rstrip(): drop trailing whitespace
RStrip(s) == IF s # <<>> /\ s[Len(s)] = WS THEN RStrip(SubSeq(s, 1, Len(s) - 1)) ELSE s

\* str.strip()
StripMutNone(s) == s
Strip(s) == RStrip(LStrip(s))

RECURSIVE LastFragmentFrom(_, _)
\* the text after the last FENCE of s, scanning back from position i
LastFragmentFrom(s, i) ==
    IF i = 0 THEN s
    ELSE IF s[i] = FENCE THEN SubSeq(s, i + 1, Len(s))
    ELSE LastFragmentFrom(s, i - 1)

\* s.split(FENCE)[-1]
SplitLast(s) == LastFragmentFrom(s, Len(s))

\* ------------------------------------------------------------ Python values
NoVal == [kind |-> "none", text |-> <<>>]
ListVal(items) == [kind |-> "list", text |-> items]
StrVal(t) == [kind |-> "str", text |-> t]
PyNone == [type |-> "None", key |-> "", val |-> NoVal]
EmptyDict == [type |-> "dict", key |-> "", val |-> NoVal]
\* a dict with one key
Dict1(k, v) == [type |-> "dict", key |-> k, val |-> v]
\* "Error" in d, for a dict d
HasKey(d, k) == d.type = "dict" /\ d.key = k /\ d # EmptyDict

\* ---------------------------------------------------------------- json.loads
JsonValues == {JNULL, OBJ_PY, OBJ_ERR}

\* the Python value a JSON value lexeme decodes to
Decode(tok) ==
    CASE tok = OBJ_PY -> Dict1("Python", ListVal(<<"Q1", "Q2", "Q3">>))
      [] tok = OBJ_ERR -> Dict1("Error", ListVal(<<PROSE>>))
      [] OTHER -> PyNone

RECURSIVE SkipWs(_, _)
\* the whitespace matcher of json: first position at or after i that is no whitespace
SkipWs(s, i) == IF i <= Len(s) /\ s[i] = WS THEN SkipWs(s, i + 1) ELSE i

Raised == [ok |-> FALSE, val |-> PyNone]
Returned(v) == [ok |-> TRUE, val |-> v]

\* json.loads(s): skip whitespace, decode one value, skip whitespace, and
\* raise unless that reaches the end of s ("Extra data")
JsonLoads(s) ==
    LET i == SkipWs(s, 1) IN
    IF i > Len(s) \/ s[i] \notin JsonValues THEN Raised
    ELSE IF SkipWs(s, i + 1) <= Len(s) THEN Raised
    ELSE Returned(Decode(s[i]))

\* generate_questions, after the model call: lines 52-60
QuestionsFallbackMutRaw(raw) == Dict1("Error", ListVal(Strip(raw)))
QuestionsFallback(raw) == Dict1("Error", ListVal(raw))

ParseQuestions(raw) ==
    IF JsonLoads(raw).ok THEN JsonLoads(raw).val
    ELSE LET cleaned == SplitLast(Strip(raw)) IN
         IF JsonLoads(cleaned).ok THEN JsonLoads(cleaned).val
         ELSE QuestionsFallback(raw)

\* estimate_skill_levels, after the model call: lines 110-114
ParseSkills(raw) ==
    IF JsonLoads(raw).ok THEN JsonLoads(raw).val ELSE Dict1("Error", StrVal(raw))

\* the script's rendering of questions_dict: lines 181-188
RenderQuestions(d) ==
    IF d.type # "dict" THEN "exception"
    ELSE IF HasKey(d, "Error") THEN "parse_error"
    ELSE "questions"

\* ------------------------------------------------------- exit recognizer
\* the case variants of each keyword of EXIT_KEYWORDS that a chat text may hold
Variants ==
    [k \in {"exit", "quit", "bye", "stop", "end"} |->
        CASE k = "exit" -> {"exit", "EXIT", "Exit"}
          [] k = "quit" -> {"quit", "QUIT", "Quit"}
          [] k = "bye" -> {"bye", "BYE", "Bye"}
          [] k = "stop" -> {"stop", "STOP", "Stop"}
          [] k = "end" -> {"end", "END", "End"}]

\* a word that is no keyword
WORD == "hello"

\* the lexemes a chat text is drawn from
ChatAlphabet == UNION {Variants[k] : k \in DOMAIN Variants} \cup {WS, WORD}

\* line 8: each keyword is a text of one lexeme
EXIT_KEYWORDS == {<<"exit">>, <<"quit">>, <<"bye">>, <<"stop">>, <<"end">>}

\* str.lower() on one lexeme
LowerLexeme(tok) ==
    IF \E k \in DOMAIN Variants : tok \in Variants[k]
    THEN CHOOSE k \in DOMAIN Variants : tok \in Variants[k]
    ELSE tok

\* str.lower()
Lower(s) == [i \in 1..Len(s) |-> LowerLexeme(s[i])]

\* process_input, lines 201-204: the exit test on the stripped text
IsExitMutNoLower(user_input) == user_input \in EXIT_KEYWORDS
IsExit(user_input) == Lower(user_input) \in EXIT_KEYWORDS

\* line 206
FAREWELL == <<"Thank you for your time! We will contact you with next steps.">>

\* ------------------------------------------------------------ session state
VARIABLES
    qa_history,      \* st.session_state.qa_history: sequence of <<role, msg>>
    candidate_info,  \* st.session_state.candidate_info
    chat_input,      \* st.session_state.chat_input: the value of the text widget
    skill_levels,    \* st.session_state.skill_levels
    store,           \* the file candidates.json
    pc,              \* where the current script run stands
    event,           \* the user event the current run serves
    calls,           \* client.chat.complete calls made since the event, by caller
    warned,          \* the run showed the precondition warning (line 253)
    fault,           \* an exception left the callback or the script
    raw,             \* the text the last model call returned
    questions_dict,  \* the local questions_dict of the script run
    qview,           \* what the run rendered under Technical Questions
    hist0,           \* qa_history when the event arrived
    answers          \* the answers text of the last estimate_skill_levels call

vars == <<qa_history, candidate_info, chat_input, skill_levels, store, pc, event,
          calls, warned, fault, raw, questions_dict, qview, hist0, answers>>

session == <<qa_history, candidate_info, chat_input, skill_levels, store>>

\* the values the form offers
Names == {"Ada", "Grace"}
TechStacks == {"", "Python"}

\* candidate_info = {} (line 139)
EmptyInfo ==
    [filled |-> FALSE, name |-> "", email |-> "", phone |-> "", experience |-> 0,
     position |-> "", location |-> "", tech_stack |-> ""]

\* the dict built at lines 160-168
Profile(name, tech_stack) ==
    [filled |-> TRUE, name |-> name, email |-> "a@b.c", phone |-> "1", experience |-> 0,
     position |-> "dev", location |-> "here", tech_stack |-> tech_stack]

Profiles == {Profile(n, t) : n \in Names, t \in TechStacks}

\* candidate_info.get("tech_stack") is truthy (lines 175, 244)
HasTechStackMutAlways(info) == TRUE
HasTechStack(info) == info.filled /\ info.tech_stack # ""

\* the chat texts a user commits, and what the models answer
ChatSamples == {<<>>, <<WS>>, <<"quit">>, <<WS, "QUIT">>, <<WORD>>}
ChatReplies == {<<PROSE>>}
RawSamples == {<<OBJ_PY>>, <<PROSE, FENCE, OBJ_PY, FENCE>>, <<JNULL>>}

NoEvent == [type |-> "none", info |-> EmptyInfo, text |-> <<>>]
NoCalls == [questions |-> 0, chat |-> 0, skills |-> 0]
TotalCalls == calls.questions + calls.chat + calls.skills

\* the state after the first script run (lines 136-143), which serves no event
Init ==
    /\ qa_history = <<>>
    /\ candidate_info = EmptyInfo
    /\ chat_input = <<>>
    /\ skill_levels = EmptyDict
    /\ store \in {[exists |-> FALSE, db |-> <<>>], [exists |-> TRUE, db |-> <<>>]}
    /\ pc = "idle"
    /\ event = NoEvent
    /\ calls = NoCalls
    /\ warned = FALSE
    /\ fault = FALSE
    /\ raw = <<>>
    /\ questions_dict = EmptyDict
    /\ qview = "none"
    /\ hist0 = <<>>
    /\ answers = <<>>

\* a new run starts: nothing called, shown or raised yet
StartRun(ev, at) ==
    /\ event' = ev
    /\ pc' = at
    /\ hist0' = qa_history
    /\ UNCHANGED <<calls, warned, fault, raw, questions_dict, qview, answers>>

\* ------------------------------------------------------------- user events
\* the user submits the candidate form (line 158)
SubmitForm ==
    /\ pc = "idle"
    /\ Len(store.db) < MaxStore
    /\ \E info \in Profiles : StartRun([type |-> "submit", info |-> info, text |-> <<>>], "form")
    /\ UNCHANGED session

\* the user commits a changed text in the chat box (lines 221-225): the widget
\* value is set and on_change runs process_input before the script
CommitChat ==
    /\ pc = "idle"
    /\ Len(qa_history) + 2 <= 2 * MaxExchanges
    /\ \E text \in ChatSamples :
        /\ text # chat_input
        /\ chat_input' = text
        /\ StartRun([type |-> "chat", info |-> EmptyInfo, text |-> text], "callback")
    /\ UNCHANGED <<qa_history, candidate_info, skill_levels, store>>

\* the user presses Clear Conversation (line 228)
PressClear ==
    /\ pc = "idle"
    /\ StartRun([type |-> "clear", info |-> EmptyInfo, text |-> <<>>], "form")
    /\ UNCHANGED session

\* the user presses Estimate Skill Levels (line 243)
PressEstimate ==
    /\ pc = "idle"
    /\ StartRun([type |-> "estimate", info |-> EmptyInfo, text |-> <<>>], "form")
    /\ UNCHANGED session

\* an uncaught exception ends the run
Abort ==
    /\ fault' = TRUE
    /\ pc' = "done"

\* ------------------------------------------------------ callback and script
\* lines 205-206 and 214-215: the two appends
AppendTurnsMutReplace(hist, user_input, answer) ==
    <<<<"You", user_input>>, <<"Assistant", answer>>>>
AppendTurnsMutOnlyUser(hist, user_input, answer) == hist \o <<<<"You", user_input>>>>
AppendTurns(hist, user_input, answer) ==
    hist \o <<<<"You", user_input>>, <<"Assistant", answer>>>>

\* process_input (lines 195-218), the on_change callback of the chat box
process_input ==
    /\ pc = "callback"
    /\ LET user_input == Strip(chat_input) IN
        IF user_input = <<>> THEN
            /\ pc' = "form"
            /\ UNCHANGED <<session, calls, fault>>
        ELSE IF IsExit(user_input) THEN
            /\ qa_history' = AppendTurns(qa_history, user_input, FAREWELL)
            /\ chat_input' = <<>>
            /\ pc' = "form"
            /\ UNCHANGED <<candidate_info, skill_levels, store, calls, fault>>
        ELSE
            /\ calls' = [calls EXCEPT !.chat = @ + 1]
            /\ \/ /\ Abort
                  /\ UNCHANGED session
               \/ \E final_response \in ChatReplies :
                    /\ qa_history' = AppendTurns(qa_history, user_input, final_response)
                    /\ chat_input' = <<>>
                    /\ pc' = "form"
                    /\ UNCHANGED <<candidate_info, skill_levels, store, fault>>
    /\ UNCHANGED <<event, warned, raw, questions_dict, qview, hist0, answers>>

\* save_candidate (lines 20-29) on the file contents
save_candidateMutOverwrite(file, data) == [exists |-> TRUE, db |-> <<data>>]
save_candidate(file, data) ==
    LET db == IF file.exists THEN file.db ELSE <<>> IN
    [exists |-> TRUE, db |-> Append(db, data)]

\* the candidate form block (lines 148-170)
candidate_form ==
    /\ pc = "form"
    /\ IF event.type = "submit" THEN
            /\ candidate_info' = event.info
            /\ store' = save_candidate(store, event.info)
       ELSE UNCHANGED <<candidate_info, store>>
    /\ pc' = "questions"
    /\ UNCHANGED <<qa_history, chat_input, skill_levels, event, calls, warned, fault,
                   raw, questions_dict, qview, hist0, answers>>

\* the question block (lines 175-188): generate_questions and its rendering
question_generation ==
    /\ pc = "questions"
    /\ IF HasTechStack(candidate_info) THEN
            /\ calls' = [calls EXCEPT !.questions = @ + 1]
            /\ \/ /\ Abort
                  /\ UNCHANGED <<raw, questions_dict, qview>>
               \/ \E out \in RawSamples :
                    /\ raw' = out
                    /\ questions_dict' = ParseQuestions(out)
                    /\ qview' = RenderQuestions(ParseQuestions(out))
                    /\ IF RenderQuestions(ParseQuestions(out)) = "exception"
                       THEN Abort
                       ELSE pc' = "clear" /\ UNCHANGED fault
       ELSE
            /\ pc' = "clear"
            /\ UNCHANGED <<calls, fault, raw, questions_dict, qview>>
    /\ UNCHANGED <<session, event, warned, hist0, answers>>

\* lines 229-230: what the Clear Conversation button assigns
ClearEffectMutProfile ==
    /\ qa_history' = <<>>
    /\ skill_levels' = EmptyDict
    /\ candidate_info' = EmptyInfo
    /\ UNCHANGED <<chat_input, store>>
ClearEffectMutKeepSkills ==
    /\ qa_history' = <<>>
    /\ UNCHANGED <<skill_levels, candidate_info, chat_input, store>>
ClearEffect ==
    /\ qa_history' = <<>>
    /\ skill_levels' = EmptyDict
    /\ UNCHANGED <<candidate_info, chat_input, store>>

\* the Clear Conversation button (lines 228-231)
clear_button ==
    /\ pc = "clear"
    /\ IF event.type = "clear" THEN ClearEffect ELSE UNCHANGED session
    /\ pc' = "estimate"
    /\ UNCHANGED <<event, calls, warned, fault, raw, questions_dict, qview, hist0,
                   answers>>

\* line 244: the condition under which the estimate is computed
EstimateAllowedMutNoTranscript(hist, info) == HasTechStack(info)
EstimateAllowed(hist, info) == hist # <<>> /\ HasTechStack(info)

\* the lexemes of the answers text: the markers of line 84 and the line break
QMARK == "Q: "
AMARK == "<newline>A: "
NL == "<newline>"

\* line 86: the turns whose text goes into the answers
TurnSelectedMutAll(role) == TRUE
TurnSelected(role) == role = "You"

RECURSIVE AnswerItems(_)
\* lines 84-87: one item, Q: msg and an empty A:, for each selected turn
AnswerItems(hist) ==
    IF hist = <<>> THEN <<>>
    ELSE LET role == Head(hist)[1]
             msg == Head(hist)[2]
         IN IF TurnSelected(role)
            THEN <<<<QMARK>> \o msg \o <<AMARK>> \o <<>>>> \o AnswerItems(Tail(hist))
            ELSE AnswerItems(Tail(hist))

RECURSIVE Join(_, _)
\* sep.join(items)
Join(items, sep) ==
    IF items = <<>> THEN <<>>
    ELSE IF Len(items) = 1 THEN items[1]
    ELSE items[1] \o <<sep>> \o Join(Tail(items), sep)

\* estimate_skill_levels, lines 83-88
BuildAnswers(hist) == Join(AnswerItems(hist), NL)

\* the Estimate Skill Levels button (lines 243-253)
estimate_button ==
    /\ pc = "estimate"
    /\ IF event.type = "estimate" THEN
            IF EstimateAllowed(qa_history, candidate_info) THEN
                /\ answers' = BuildAnswers(qa_history)
                /\ calls' = [calls EXCEPT !.skills = @ + 1]
                /\ \/ /\ fault' = TRUE
                      /\ UNCHANGED <<skill_levels, raw>>
                   \/ \E out \in RawSamples :
                        /\ raw' = out
                        /\ skill_levels' = ParseSkills(out)
                        /\ UNCHANGED fault
                /\ UNCHANGED warned
            ELSE
                /\ warned' = TRUE
                /\ UNCHANGED <<skill_levels, calls, fault, raw, answers>>
       ELSE UNCHANGED <<skill_levels, calls, warned, fault, raw, answers>>
    /\ pc' = "done"
    /\ UNCHANGED <<qa_history, candidate_info, chat_input, store, event,
                   questions_dict, qview, hist0>>

\* the run is over; the page waits for the next event
Finish ==
    /\ pc = "done"
    /\ pc' = "idle"
    /\ event' = NoEvent
    /\ calls' = NoCalls
    /\ warned' = FALSE
    /\ fault' = FALSE
    /\ raw' = <<>>
    /\ questions_dict' = EmptyDict
    /\ qview' = "none"
    /\ hist0' = <<>>
    /\ answers' = <<>>
    /\ UNCHANGED session

Next ==
    \/ SubmitForm
    \/ CommitChat
    \/ PressClear
    \/ PressEstimate
    \/ process_input
    \/ candidate_form
    \/ question_generation
    \/ clear_button
    \/ estimate_button
    \/ Finish

Spec == Init /\ [][Next]_vars

\* ------------------------------------------- the parsers on every raw text
\* a model call has returned raw, any text of at most MaxRaw lexemes
InitParse ==
    /\ qa_history = <<>>
    /\ candidate_info = EmptyInfo
    /\ chat_input = <<>>
    /\ skill_levels = EmptyDict
    /\ store = [exists |-> FALSE, db |-> <<>>]
    /\ pc = "returned"
    /\ event = NoEvent
    /\ calls = NoCalls
    /\ warned = FALSE
    /\ fault = FALSE
    /\ raw \in SeqsUpTo(RawAlphabet, MaxRaw)
    /\ questions_dict = EmptyDict
    /\ qview = "none"
    /\ hist0 = <<>>
    /\ answers = <<>>

\* generate_questions from line 50 on, and the rendering of its result (181-188)
questions_returned ==
    /\ pc = "returned"
    /\ questions_dict' = ParseQuestions(raw)
    /\ qview' = RenderQuestions(ParseQuestions(raw))
    /\ pc' = "questions_shown"
    /\ UNCHANGED <<session, event, calls, warned, fault, raw, hist0, answers>>

\* estimate_skill_levels from line 110 on, assigned at line 246
skills_returned ==
    /\ pc = "returned"
    /\ skill_levels' = ParseSkills(raw)
    /\ pc' = "skills_shown"
    /\ UNCHANGED <<qa_history, candidate_info, chat_input, store, event, calls, warned,
                   fault, raw, questions_dict, qview, hist0, answers>>

NextParse == questions_returned \/ skills_returned

SpecParse == InitParse /\ [][NextParse]_vars

\* ------------------------------------- the chat callback on every chat text
\* the user has committed a text of at most MaxText lexemes in a fresh session
InitExit ==
    /\ qa_history = <<>>
    /\ candidate_info = EmptyInfo
    /\ chat_input \in SeqsUpTo(ChatAlphabet, MaxText) \ {<<>>}
    /\ skill_levels = EmptyDict
    /\ store = [exists |-> FALSE, db |-> <<>>]
    /\ pc = "callback"
    /\ event = [type |-> "chat", info |-> EmptyInfo, text |-> chat_input]
    /\ calls = NoCalls
    /\ warned = FALSE
    /\ fault = FALSE
    /\ raw = <<>>
    /\ questions_dict = EmptyDict
    /\ qview = "none"
    /\ hist0 = <<>>
    /\ answers = <<>>

NextExit ==
    \/ process_input
    \/ candidate_form
    \/ question_generation
    \/ clear_button
    \/ estimate_button
    \/ Finish

SpecExit == InitExit /\ [][NextExit]_vars

\* ------------------------------------------------------------------ claims
\* the reading of the claims, stated apart from the operators of the code
IsPrefix(s, t) == Len(s) <= Len(t) /\ SubSeq(t, 1, Len(s)) = s

\* s is one lexeme of set V with nothing but whitespace around it
OneOf(s, V) ==
    \E i \in 1..Len(s) : s[i] \in V /\ \A j \in 1..Len(s) : j # i => s[j] = WS

IsJsonText(s) == OneOf(s, {JNULL, OBJ_PY, OBJ_ERR})
IsJsonObjectText(s) == OneOf(s, {OBJ_PY, OBJ_ERR})
ObjectIn(s) == s[CHOOSE i \in 1..Len(s) : s[i] \in {OBJ_PY, OBJ_ERR}]
MatchesKeyword(s) == OneOf(s, UNION {Variants[k] : k \in DOMAIN Variants})
NoFence(s) == \A i \in 1..Len(s) : s[i] # FENCE

\* the fragment after the last code fence of s (s itself when it has no fence)
LastFragmentOf(s) ==
    LET n == CHOOSE k \in 0..Len(s) :
                 /\ NoFence(SubSeq(s, k + 1, Len(s)))
                 /\ (k = 0 \/ s[k] = FENCE)
    IN SubSeq(s, n + 1, Len(s))

TechStackEmpty(info) == ~info.filled \/ info.tech_stack = ""
ExitEvent == event.type = "chat" /\ MatchesKeyword(event.text)

\* C1: when the committed chat text is an exit keyword, the event appends exactly
\* the Candidate turn with the text and the Assistant turn with the farewell, and
\* no model call is made from the handler to the end of the run the event causes
\* (stated of the runs that raise nothing).
C1_ExitTwoTurnsNoModelCall ==
    (pc = "done" /\ ExitEvent /\ ~fault) =>
        /\ qa_history = hist0 \o <<<<"You", Strip(event.text)>>, <<"Assistant", FAREWELL>>>>
        /\ TotalCalls = 0

\* C2: the step of the clear-conversation action leaves the Transcript and the
\* SkillEstimate empty and leaves the CandidateProfile and the store as they were.
C2_ClearKeepsProfile ==
    [][(pc = "clear" /\ event.type = "clear") =>
        /\ qa_history' = <<>>
        /\ skill_levels' = EmptyDict
        /\ candidate_info' = candidate_info
        /\ store' = store]_vars

C2_Witness ==
    /\ pc = "estimate"
    /\ event.type = "clear"
    /\ hist0 # <<>>
    /\ qa_history = <<>>
    /\ skill_levels = EmptyDict
    /\ candidate_info.filled
    /\ Len(store.db) = 1

\* C3: the estimate button, taken with an empty Transcript or an empty tech stack,
\* shows the warning, makes no skill-estimation call and changes neither the
\* SkillEstimate, the Transcript nor the CandidateProfile.
C3_EstimatePrecondition ==
    [][(/\ pc = "estimate"
        /\ event.type = "estimate"
        /\ (qa_history = <<>> \/ TechStackEmpty(candidate_info))) =>
        /\ warned'
        /\ calls'.skills = calls.skills
        /\ UNCHANGED <<skill_levels, qa_history, candidate_info>>]_vars

C3_Witness ==
    /\ pc = "done"
    /\ event.type = "estimate"
    /\ qa_history = <<>>
    /\ ~TechStackEmpty(candidate_info)
    /\ warned
    /\ calls.skills = 0

\* C4: a raw text that is no JSON text, and whose fragment after the last code
\* fence is none either, comes back from both parsers as the failure result
\* holding raw itself, whitespace and fences included.
C4_FailureKeepsRaw ==
    (~IsJsonText(raw) /\ ~IsJsonText(LastFragmentOf(raw))) =>
        /\ pc = "questions_shown" =>
              questions_dict = Dict1("Error", ListVal(raw)) /\ qview = "parse_error"
        /\ pc = "skills_shown" => skill_levels = Dict1("Error", StrVal(raw))

C4_Witness ==
    /\ pc = "questions_shown"
    /\ raw = <<WS, PROSE, FENCE, PROSE, WS>>
    /\ questions_dict = Dict1("Error", ListVal(raw))

\* C5: a raw text that is a JSON object is returned decoded, and the caller
\* renders it as questions, never as the could-not-parse state, whatever its keys.
C5_ObjectIsSuccess ==
    (pc = "questions_shown" /\ IsJsonObjectText(raw)) =>
        /\ questions_dict = Decode(ObjectIn(raw))
        /\ qview = "questions"

\* prose, a fence, a JSON object, a fence, trailing text
FencedForm(s) ==
    \E i, j \in 1..Len(s) :
        /\ 1 < i /\ i < j
        /\ s[i] = FENCE /\ s[j] = FENCE
        /\ IsJsonObjectText(SubSeq(s, i + 1, j - 1))
        /\ \A k \in (1..(i - 1)) \cup ((j + 1)..Len(s)) : s[k] \in {PROSE, WS}
        /\ \E k \in 1..(i - 1) : s[k] = PROSE

\* C6: a raw text of the form prose, fence, JSON object, fence, trailing text is
\* parsed to the mapping of the fenced object, by both parsers.
C6_FencedObjectParsed ==
    FencedForm(raw) =>
        /\ pc = "questions_shown" => questions_dict = Decode(ObjectIn(raw))
        /\ pc = "skills_shown" => skill_levels = Decode(ObjectIn(raw))

\* the handler took its exit branch: the farewell was appended and no chat call made
ExitTaken ==
    /\ Len(qa_history) = 2
    /\ qa_history[1][1] = "You"
    /\ qa_history[2] = <<"Assistant", FAREWELL>>
    /\ calls.chat = 0

\* C7: the exit test holds of exactly the texts that, trimmed and with case
\* ignored, are one of exit, quit, bye, stop, end.
C7_ExitTest ==
    pc \notin {"callback", "idle"} => (ExitTaken <=> MatchesKeyword(event.text))

C7_Witness ==
    /\ pc = "form"
    /\ event.text = <<WS, "Quit", WS>>
    /\ ExitTaken
    /\ qa_history[1][2] = <<"Quit">>

\* C8: from the handler of an event to the end of the run it causes, at most one
\* model call is made (stated of the runs that raise nothing).
C8_AtMostOneCall == (pc = "done" /\ ~fault) => TotalCalls <= 1

\* C9: every step leaves the Transcript as it was, or appends to it, or empties
\* it, and empties it only in the step of the clear-conversation action.
C9_TranscriptAppendOnly ==
    [][\/ IsPrefix(qa_history, qa_history')
       \/ (qa_history' = <<>> /\ pc = "clear" /\ event.type = "clear")]_vars

C9_Witness ==
    /\ pc = "form"
    /\ event.type = "chat"
    /\ Len(hist0) = 2
    /\ Len(qa_history) = 4
    /\ IsPrefix(hist0, qa_history)

\* C10: a step taken while the tech stack is empty (or no profile is set) makes
\* no question-generation call and no skill-estimation call, and writes no
\* estimate: skill_levels changes only when the clear button empties it.
C10_NoTechStackNoGeneration ==
    [][TechStackEmpty(candidate_info) =>
        /\ calls'.questions <= calls.questions
        /\ calls'.skills <= calls.skills
        /\ (skill_levels' # skill_levels =>
               (pc = "clear" /\ event.type = "clear" /\ skill_levels' = EmptyDict))]_vars

C10_Witness ==
    /\ pc = "done"
    /\ event.type = "estimate"
    /\ TechStackEmpty(candidate_info)
    /\ candidate_info.filled
    /\ qa_history # <<>>
    /\ warned
    /\ calls = NoCalls

\* C11: once a form submission has set the CandidateProfile, no later step of the
\* session changes it.
C11_ProfileSetOnce ==
    [][candidate_info.filled => candidate_info' = candidate_info]_vars

\* the contents of the store file, a missing file counting as empty
Contents(file) == IF file.exists THEN file.db ELSE <<>>

\* C12: the step that serves a form submission leaves the store holding its
\* previous contents followed by the submitted profile (a missing file counting
\* as empty); no other step changes the store, so each submission appends once.
C12_SaveAppendsOne ==
    [][IF pc = "form" /\ event.type = "submit"
       THEN /\ store'.exists
            /\ Len(store'.db) = Len(Contents(store)) + 1
            /\ IsPrefix(Contents(store), store'.db)
            /\ store'.db[Len(store'.db)] = event.info
       ELSE store' = store]_vars

C12_Witness ==
    /\ pc = "questions"
    /\ event.type = "submit"
    /\ Len(store.db) = 2
    /\ store.db[2] = event.info
    /\ store.db[1] # store.db[2]

\* a model call raised and nothing caught it
ModelCallUnhandled == fault /\ qview # "exception"

\* C13: a model call that fails is recovered into a visible failure state; the
\* exception never leaves the callback or the script.
C13_ModelFailureRecovered == ~ModelCallUnhandled

RECURSIVE CandidateTexts(_)
\* the texts of the Candidate turns of a transcript, one after the other
CandidateTexts(hist) ==
    IF hist = <<>> THEN <<>>
    ELSE LET n == Len(hist) IN
         CandidateTexts(SubSeq(hist, 1, n - 1))
            \o (IF hist[n][1] = "You" THEN hist[n][2] ELSE <<>>)

Count(s, x) == Cardinality({i \in 1..Len(s) : s[i] = x})
IsMarker(x) == x \in {QMARK, AMARK, NL}
NotMarker(x) == ~IsMarker(x)
CandidateTurns == Cardinality({i \in 1..Len(qa_history) : qa_history[i][1] = "You"})

\* C14: the answers text of a skill estimation holds one Q: item per Candidate
\* turn, in transcript order, each with an empty A:, and no text of an
\* Assistant turn.
C14_AnswersFromCandidateTurns ==
    (pc = "done" /\ calls.skills = 1) =>
        /\ Count(answers, QMARK) = CandidateTurns
        /\ Count(answers, AMARK) = CandidateTurns
        /\ SelectSeq(answers, NotMarker) = CandidateTexts(qa_history)
        /\ \A i \in 1..Len(answers) :
              /\ answers[i] = AMARK => (i = Len(answers) \/ answers[i + 1] = NL)
              /\ answers[i] = NL => (i < Len(answers) /\ answers[i + 1] = QMARK)
              /\ \A j \in 1..Len(qa_history) :
                    qa_history[j][1] = "Assistant" =>
                        \A k \in 1..Len(qa_history[j][2]) : answers[i] # qa_history[j][2][k]

C14_Witness ==
    /\ pc = "done"
    /\ calls.skills = 1
    /\ Len(qa_history) = 4
    /\ answers = <<QMARK, "quit", AMARK, NL, QMARK, WORD, AMARK>>

\* the chat model call of the current run raised
ChatCallFailed ==
    event.type = "chat" /\ fault /\ calls.chat = 1 /\ calls.questions = 0

\* C15: the Transcript always has even length and alternates, Candidate turn
\* first, then Assistant turn; a chat commit whose model call fails leaves it
\* as it was.
C15_TranscriptAlternates ==
    /\ Len(qa_history) % 2 = 0
    /\ \A i \in 1..Len(qa_history) :
          qa_history[i][1] = (IF i % 2 = 1 THEN "You" ELSE "Assistant")
    /\ ChatCallFailed => qa_history = hist0

C15_Witness ==
    /\ pc = "done"
    /\ ChatCallFailed
    /\ Len(hist0) = 2
    /\ qa_history = hist0
    /\ event.text = <<WORD>>

\* C16: whenever the Transcript is empty the SkillEstimate is empty.
C16_EmptyTranscriptEmptyEstimate ==
    qa_history = <<>> => skill_levels = EmptyDict

\* an estimate was written over a Transcript that holds turns
C16_Witness ==
    /\ pc = "done"
    /\ event.type = "estimate"
    /\ calls.skills = 1
    /\ ~fault
    /\ qa_history # <<>>
    /\ skill_levels = Dict1("Python", ListVal(<<"Q1", "Q2", "Q3">>))

AllWhitespace(s) == \A i \in 1..Len(s) : s[i] = WS

\* C17: the handler of a committed chat text that is empty or all whitespace
\* appends no turn, makes no model call and leaves the CandidateProfile and the
\* SkillEstimate as they were.
C17_BlankCommitNoEffect ==
    [][(pc = "callback" /\ AllWhitespace(chat_input)) =>
        /\ calls' = calls
        /\ ~fault'
        /\ UNCHANGED <<qa_history, candidate_info, skill_levels>>]_vars

C17_Witness ==
    /\ pc = "form"
    /\ event.type = "chat"
    /\ event.text = <<WS>>
    /\ Len(hist0) = 2
    /\ qa_history = hist0
    /\ calls = NoCalls
    /\ skill_levels # EmptyDict

====
